---- MODULE Spec2Model ----
(***************************************************************************)
(* Model of app.py: the per-part balance projection (process_data), the   *)
(* monthly snapshot summary, get_last_monday_of_month and the session      *)
(* state the "Process Data" button writes.                                 *)
(*                                                                         *)
(* Quantities are integers (float() of an integral cell is exact), dates   *)
(* are proleptic Gregorian ordinals at day resolution, a blank cell (NaN)  *)
(* and Python's None are the empty tuple, and the quotient WOS_Check is    *)
(* kept as the pair <<numerator, denominator>>.                            *)
(***************************************************************************)
EXTENDS Integers, Sequences, FiniteSets, TLC

VARIABLES
    wb,              \* the uploaded workbook: sheet name -> sequence of rows
    selected_sheet,  \* the "Target Sheet" selectbox
    pc,              \* position inside the button handler / process_data
    all_sheets_dict, \* process_data's argument (mutated in place)
    df,              \* the filled, sorted frame of the selected sheet
    todo,            \* part numbers groupby has not yet yielded
    records,         \* records of the group being walked
    i,               \* loop index inside the group (0-based, as in the code)
    prev_balance,    \* carried balance
    frames,          \* the locals of each finished iteration of the group
    final_results,   \* rows of the groups already finished
    exc,             \* the exception caught at line 114, if any
    ret,             \* what process_data returned: <<results, stats>>
    session,         \* st.session_state: [results, stats]
    cal_year, cal_month, cal_result  \* a call of get_last_monday_of_month

vars == <<wb, selected_sheet, pc, all_sheets_dict, df, todo, records, i,
          prev_balance, frames, final_results, exc, ret, session,
          cal_year, cal_month, cal_result>>

None == <<>>
Some(v) == <<v>>

Max(a, b) == IF a >= b THEN a ELSE b

(***************************************************************************)
(* datetime: ordinals, weekday, year/month of an ordinal                   *)
(***************************************************************************)
MinYear == 2001
MaxYear == 2030

IsLeap(y) == (y % 4 = 0) /\ ((y % 100 # 0) \/ (y % 400 = 0))

DaysInMonth(y, m) ==
    IF m = 2 THEN (IF IsLeap(y) THEN 29 ELSE 28)
    ELSE IF m \in {4, 6, 9, 11} THEN 30 ELSE 31

DaysBeforeYear(y) ==
    (y - 1) * 365 + ((y - 1) \div 4) - ((y - 1) \div 100) + ((y - 1) \div 400)

RECURSIVE DaysBeforeMonth(_, _)
DaysBeforeMonth(y, m) ==
    IF m = 1 THEN 0 ELSE DaysBeforeMonth(y, m - 1) + DaysInMonth(y, m - 1)

\* datetime(y, m, d).toordinal()
toordinal(y, m, d) == DaysBeforeYear(y) + DaysBeforeMonth(y, m) + d

\* datetime.weekday(): Monday = 0
weekday(ord) == (ord + 6) % 7

\* year and month of the date with this ordinal (dt.to_period('M'), strftime('%Y-%m'))
YearOf(ord) ==
    CHOOSE y \in (MinYear - 1)..(MaxYear + 1) :
        DaysBeforeYear(y) < ord /\ ord <= DaysBeforeYear(y + 1)

MonthOf(ord) ==
    LET y == YearOf(ord)
        n == ord - DaysBeforeYear(y)
    IN  CHOOSE m \in 1..12 :
            DaysBeforeMonth(y, m) < n /\ n <= DaysBeforeMonth(y, m) + DaysInMonth(y, m)

to_period(ord) == <<YearOf(ord), MonthOf(ord)>>

\* faulty variant of lines 17-21: the first day of the next month, not stepped back
LastDayNoStepBack(year, month) ==
    IF month = 12 THEN toordinal(year + 1, 1, 1) ELSE toordinal(year, month + 1, 1)

\* lines 17-21: the ordinal of the month's last calendar day
LastDayOrdinal(year, month) ==
    IF month = 12 THEN toordinal(year + 1, 1, 1) - 1
    ELSE toordinal(year, month + 1, 1) - 1

\* lines 15-23
get_last_monday_of_month(year, month) ==
    LET last_day == LastDayOrdinal(year, month)
        offset == weekday(last_day)
    IN  last_day - offset

(***************************************************************************)
(* Column registry (lines 35-41)                                           *)
(***************************************************************************)
unconf_col == "SupplierHP(UnconfirmedOrders)"
conf_col == "SupplierHP(ConfirmedOrders)"

deductions ==
    <<"POR demand", "PO vs POR adustment", "Backlog", "Build and Hold",
      "Pre-build", "Test Req't", "Strategic Buffer", "DCR",
      "Others (PP,NPI build, etc)">>

forward_cols ==
    <<"POR demand", "PO vs POR adustment", "Backlog", "Build and Hold",
      "Pre-build", "Test Req't">>

DefaultMoq == 1
MoqFloor == 1
DefaultN == 5
Sentinel == 999

(***************************************************************************)
(* Frame helpers: dict access, fillna, sort_values, groupby                *)
(***************************************************************************)
\* row.get(c, d)
Get(row, c, d) == IF c \in DOMAIN row THEN row[c] ELSE d

\* row[c] = v
SetKey(row, c, v) == [x \in (DOMAIN row) \cup {c} |-> IF x = c THEN v ELSE row[x]]

\* line 29: every blank cell becomes 0
fillna(sheet) ==
    [r \in DOMAIN sheet |->
        [c \in DOMAIN sheet[r] |->
            IF sheet[r][c] = None THEN 0 ELSE sheet[r][c][1]]]

Columns(sheet) == UNION {DOMAIN sheet[r] : r \in DOMAIN sheet}

RowLE(a, b) ==
    \/ a["Part Number"] < b["Part Number"]
    \/ a["Part Number"] = b["Part Number"] /\ a["Date"] <= b["Date"]

\* line 33: stable sort by part, then date
RECURSIVE sort_values(_)
sort_values(rows) ==
    IF rows = <<>> THEN <<>>
    ELSE LET s == sort_values(SubSeq(rows, 1, Len(rows) - 1))
             last == rows[Len(rows)]
             k == Cardinality({j \in 1..Len(s) : RowLE(s[j], last)})
         IN  SubSeq(s, 1, k) \o <<last>> \o SubSeq(s, k + 1, Len(s))

PartsOf(rows) == {rows[r]["Part Number"] : r \in DOMAIN rows}

RECURSIVE SelectRows(_, _)
SelectRows(rows, part) ==
    IF rows = <<>> THEN <<>>
    ELSE LET rest == SelectRows(Tail(rows), part)
         IN  IF Head(rows)["Part Number"] = part THEN <<Head(rows)>> \o rest ELSE rest

SetMin(S) == CHOOSE x \in S : \A y \in S : x <= y

(***************************************************************************)
(* One iteration of the row loop (lines 49-73)                             *)
(***************************************************************************)
RECURSIVE SumCols(_, _)
\* sum(float(row.get(c, 0)) for c in cols if c in row)
SumCols(row, cols) ==
    IF cols = <<>> THEN 0
    ELSE (IF Head(cols) \in DOMAIN row THEN row[Head(cols)] ELSE 0)
         + SumCols(row, Tail(cols))

RECURSIVE WindowSum(_, _, _)
\* lines 58-59 and 71-72: forward columns over records[i+1 .. i+n_weeks]
WindowSum(recs, idx, n_weeks) ==
    IF n_weeks <= 0 THEN 0
    ELSE SumCols(recs[idx + n_weeks + 1], forward_cols)
         + WindowSum(recs, idx, n_weeks - 1)

\* faulty variant of line 51: only a zero MOQ is raised to 1
EffectiveMoqZeroOnly(row) ==
    IF Get(row, "MOQ", DefaultMoq) = 0 THEN MoqFloor ELSE Get(row, "MOQ", DefaultMoq)
\* line 51
EffectiveMoq(row) == Max(Get(row, "MOQ", DefaultMoq), MoqFloor)

\* line 52
Horizon(row) == Get(row, "n", DefaultN)

\* faulty variant of line 53: every row starts from its own Onhand
StartValOnhandOnly(row, idx, prev) == Get(row, "Onhand", 0)
\* line 53
StartVal(row, idx, prev) == IF idx = 0 THEN Get(row, "Onhand", 0) ELSE prev[1]

\* lines 57 and 70
HasWindow(idx, n_weeks, num_rows) == idx + n_weeks < num_rows

\* faulty variants of lines 62-63: ceiling instead of floor + 1, a clamp at 0,
\* one lot too many
UnconfirmedCeil(gap, moq) == (-((-gap) \div moq)) * moq
UnconfirmedClamped(gap, moq) == Max(((gap \div moq) + 1) * moq, 0)
UnconfirmedTwoLots(gap, moq) == ((gap \div moq) + 2) * moq
\* lines 62-63
UnconfirmedOrders(gap, moq) == ((gap \div moq) + 1) * moq

\* faulty variant of line 73: divides whenever future_sum >= 0
WosCheckNonNegative(bal, future_sum, n_weeks) ==
    IF future_sum >= 0 THEN <<bal * n_weeks, future_sum>> ELSE <<Sentinel, 1>>
\* line 73
WosCheck(bal, future_sum, n_weeks) ==
    IF future_sum > 0 THEN <<bal * n_weeks, future_sum>> ELSE <<Sentinel, 1>>

KeyError(c) == <<"KeyError", c>>

\* the exception the iteration raises, if any (lines 55 and 65)
RowError(recs, idx) ==
    LET row == recs[idx + 1]
        window == HasWindow(idx, Horizon(row), Len(recs))
    IN  IF conf_col \notin DOMAIN row THEN Some(KeyError(conf_col))
        ELSE IF ~window /\ unconf_col \notin DOMAIN row THEN Some(KeyError(unconf_col))
        ELSE None

\* the locals of the iteration
RowFrame(recs, idx, prev) ==
    LET row == recs[idx + 1]
        moq == EffectiveMoq(row)
        n_weeks == Horizon(row)
        start_val == StartVal(row, idx, prev)
        current_deductions == SumCols(row, deductions)
        c_val == row[conf_col]
        window == HasWindow(idx, n_weeks, Len(recs))
        base == [moq |-> moq, n_weeks |-> n_weeks, start_val |-> start_val,
                 current_deductions |-> current_deductions, c_val |-> c_val,
                 window |-> window]
    IN  IF window
        THEN LET target_sum == WindowSum(recs, idx, n_weeks)
                 base_bal == start_val + c_val - current_deductions
                 gap == target_sum - base_bal
             IN  base @@ [target_sum |-> target_sum, base_bal |-> base_bal,
                          gap |-> gap, unconf |-> UnconfirmedOrders(gap, moq)]
        ELSE base

\* the row as the iteration leaves it
RowUpdate(recs, idx, f) ==
    LET row == recs[idx + 1]
        row1 == IF f.window THEN SetKey(row, unconf_col, f.unconf) ELSE row
        final_supply == row1[unconf_col] + f.c_val
        this_week_balance == f.start_val + final_supply - f.current_deductions
        row2 == SetKey(row1, "Calculated_Balance", this_week_balance)
    IN  IF f.window
        THEN SetKey(row2, "WOS_Check",
                    WosCheck(this_week_balance,
                             WindowSum(recs, idx, f.n_weeks), f.n_weeks))
        ELSE row2

(***************************************************************************)
(* After the loops: the output frame, the summary, the stats (76-112)      *)
(***************************************************************************)
\* line 76: pd.DataFrame(list of dicts): a key missing from a record is NaN
DataFrame(rows) ==
    [r \in DOMAIN rows |->
        [c \in Columns(rows) |-> IF c \in DOMAIN rows[r] THEN rows[r][c] ELSE None]]

RECURSIVE Unique(_)
\* .unique(): first occurrences, in order of appearance
Unique(seq) ==
    IF seq = <<>> THEN <<>>
    ELSE LET init == Unique(SubSeq(seq, 1, Len(seq) - 1))
             last == seq[Len(seq)]
         IN  IF \E j \in DOMAIN init : init[j] = last THEN init ELSE Append(init, last)

RECURSIVE SortedSeq(_)
\* the keys of a groupby, ascending
SortedSeq(S) ==
    IF S = {} THEN <<>> ELSE <<SetMin(S)>> \o SortedSeq(S \ {SetMin(S)})

\* line 84: 'Cost' in str(c)
ContainsCost(c) == c \in {"Unit Cost", "Std Cost", "Cost"}

\* line 87: set_index('HPPN')[price_col].to_dict(); a later row overwrites
price_lookup(master_df, price_col) ==
    LET keys == {master_df[r]["HPPN"][1] : r \in DOMAIN master_df}
        lastRow(h) == CHOOSE r \in DOMAIN master_df :
                          /\ master_df[r]["HPPN"][1] = h
                          /\ \A q \in DOMAIN master_df :
                                 master_df[q]["HPPN"][1] = h => q <= r
    IN  [h \in keys |-> master_df[lastRow(h)][price_col][1]]

\* lines 88-89
TargetDates(optimized_df) ==
    LET years_months ==
            Unique([r \in DOMAIN optimized_df |-> to_period(optimized_df[r]["Date"])])
    IN  [t \in DOMAIN years_months |->
            get_last_monday_of_month(years_months[t][1], years_months[t][2])]

\* faulty variant of lines 95-96: the part's latest balance, whatever its date
SnapshotBalanceAny(group, t_date) ==
    IF group = <<>> THEN 0 ELSE group[Len(group)]["Calculated_Balance"]
\* lines 95-96
SnapshotBalance(group, t_date) ==
    LET match == SelectSeq(group, LAMBDA row : row["Date"] = t_date)
    IN  IF match # <<>> THEN match[1]["Calculated_Balance"] ELSE 0

\* line 93
UnitPriceOf(lookup, part) == IF part \in DOMAIN lookup THEN lookup[part] ELSE 0

\* lines 91-105
SummaryRows(optimized_df, lookup) ==
    LET parts == SortedSeq(PartsOf(optimized_df))
        target_dates == TargetDates(optimized_df)
        T == Len(target_dates)
    IN  [x \in 1..(Len(parts) * T) |->
            LET part == parts[((x - 1) \div T) + 1]
                t_date == target_dates[((x - 1) % T) + 1]
                bal == SnapshotBalance(SelectRows(optimized_df, part), t_date)
                unit_price == UnitPriceOf(lookup, part)
            IN  ("Part Number" :> part) @@ ("Snapshot Date" :> t_date)
                 @@ ("Month" :> to_period(t_date)) @@ ("Balance" :> bal)
                 @@ ("Unit Price" :> unit_price) @@ ("Amount" :> bal * unit_price)]

\* lines 80-106: the dict with the summary added when Master has a cost column
WithSummary(sheets, optimized_df) ==
    IF "Master" \in DOMAIN sheets
          /\ \E c \in Columns(sheets["Master"]) : ContainsCost(c)
    THEN LET master_df == sheets["Master"]
             price_col == CHOOSE c \in Columns(master_df) : ContainsCost(c)
         IN  ("Summary Report" :>
                  SummaryRows(optimized_df, price_lookup(master_df, price_col)))
             @@ sheets
    ELSE sheets

RECURSIVE RatSum(_)
RatSum(qs) ==
    IF qs = <<>> THEN <<0, 1>>
    ELSE LET a == Head(qs)
             b == RatSum(Tail(qs))
         IN  <<a[1] * b[2] + b[1] * a[2], a[2] * b[2]>>

\* lines 108-111: the mean skips NaN; the quotient is <<numerator, denominator>>
Stats(optimized_df) ==
    LET has == SelectSeq(optimized_df, LAMBDA row : row["WOS_Check"] # None)
        total == RatSum([r \in DOMAIN has |-> has[r]["WOS_Check"]])
    IN  [total_parts |-> Cardinality(PartsOf(optimized_df)),
         avg_wos |-> IF "WOS_Check" \in Columns(optimized_df)
                     THEN <<total[1], total[2] * Len(has)>>
                     ELSE <<0, 1>>]

(***************************************************************************)
(* The handler of the "Process Data" button and process_data, step by step *)
(***************************************************************************)
Idle ==
    /\ all_sheets_dict = None /\ df = <<>> /\ todo = {} /\ records = <<>>
    /\ i = 0 /\ prev_balance = None /\ frames = <<>> /\ final_results = <<>>
    /\ exc = None /\ ret = None

ToIdle ==
    /\ all_sheets_dict' = None /\ df' = <<>> /\ todo' = {} /\ records' = <<>>
    /\ i' = 0 /\ prev_balance' = None /\ frames' = <<>> /\ final_results' = <<>>
    /\ exc' = None /\ ret' = None

\* line 136: the selectbox
SelectSheet(s) ==
    /\ pc = "idle"
    /\ s \in DOMAIN wb /\ s # selected_sheet
    /\ selected_sheet' = s
    /\ UNCHANGED <<wb, pc, all_sheets_dict, df, todo, records, i, prev_balance,
                   frames, final_results, exc, ret, session,
                   cal_year, cal_month, cal_result>>

\* lines 137-140 and 27-33: parse every sheet, copy, fillna, to_datetime, sort
Click ==
    /\ pc = "idle"
    /\ all_sheets_dict' = Some(wb)
    /\ LET filled == fillna(wb[selected_sheet])
       IN  IF "Part Number" \notin Columns(filled)
           THEN /\ exc' = Some(KeyError("Part Number"))
                /\ pc' = "except"
                /\ UNCHANGED <<df, todo>>
           ELSE IF "Date" \notin Columns(filled)
           THEN /\ exc' = Some(KeyError("Date"))
                /\ pc' = "except"
                /\ UNCHANGED <<df, todo>>
           ELSE /\ df' = sort_values(filled)
                /\ todo' = PartsOf(filled)
                /\ pc' = "groups"
                /\ UNCHANGED exc
    /\ UNCHANGED <<wb, selected_sheet, records, i, prev_balance, frames,
                   final_results, ret, session, cal_year, cal_month, cal_result>>

\* lines 44-47: groupby yields the next part
NextGroup ==
    /\ pc = "groups" /\ todo # {}
    /\ LET part == SetMin(todo)
       IN  /\ records' = SelectRows(df, part)
           /\ todo' = todo \ {part}
    /\ i' = 0
    /\ prev_balance' = None
    /\ frames' = <<>>
    /\ pc' = "rows"
    /\ UNCHANGED <<wb, selected_sheet, all_sheets_dict, df, final_results, exc,
                   ret, session, cal_year, cal_month, cal_result>>

\* lines 49-73: one iteration
RowStep ==
    /\ pc = "rows" /\ i < Len(records)
    /\ IF RowError(records, i) # None
       THEN /\ exc' = RowError(records, i)
            /\ pc' = "except"
            /\ UNCHANGED <<records, i, prev_balance, frames>>
       ELSE LET f == RowFrame(records, i, prev_balance)
                row == RowUpdate(records, i, f)
            IN  /\ records' = [records EXCEPT ![i + 1] = row]
                /\ prev_balance' = Some(row["Calculated_Balance"])
                /\ frames' = Append(frames, f)
                /\ i' = i + 1
                /\ UNCHANGED <<exc, pc>>
    /\ UNCHANGED <<wb, selected_sheet, all_sheets_dict, df, todo, final_results,
                   ret, session, cal_year, cal_month, cal_result>>

\* line 74
EndGroup ==
    /\ pc = "rows" /\ i = Len(records)
    /\ final_results' = final_results \o records
    /\ pc' = "groups"
    /\ UNCHANGED <<wb, selected_sheet, all_sheets_dict, df, todo, records, i,
                   prev_balance, frames, exc, ret, session,
                   cal_year, cal_month, cal_result>>

\* lines 76-112
Summarize ==
    /\ pc = "groups" /\ todo = {}
    /\ LET optimized_df == DataFrame(final_results)
           sheets == (selected_sheet :> optimized_df) @@ all_sheets_dict[1]
           out == WithSummary(sheets, optimized_df)
       IN  /\ all_sheets_dict' = Some(out)
           /\ ret' = <<Some(out), Some(Stats(optimized_df))>>
    /\ pc' = "ret"
    /\ UNCHANGED <<wb, selected_sheet, df, todo, records, i, prev_balance, frames,
                   final_results, exc, session, cal_year, cal_month, cal_result>>

\* lines 114-116
Except ==
    /\ pc = "except"
    /\ ret' = <<None, None>>
    /\ pc' = "ret"
    /\ UNCHANGED <<wb, selected_sheet, all_sheets_dict, df, todo, records, i,
                   prev_balance, frames, final_results, exc, session,
                   cal_year, cal_month, cal_result>>

\* lines 141-142: whatever process_data returned goes into the session
Store ==
    /\ pc = "ret"
    /\ session' = [results |-> ret[1], stats |-> ret[2]]
    /\ pc' = "idle"
    /\ ToIdle
    /\ UNCHANGED <<wb, selected_sheet, cal_year, cal_month, cal_result>>

\* a call of get_last_monday_of_month (line 89)
CallLastMonday ==
    /\ cal_result = None
    /\ cal_result' = Some(get_last_monday_of_month(cal_year, cal_month))
    /\ UNCHANGED <<wb, selected_sheet, pc, all_sheets_dict, df, todo, records, i,
                   prev_balance, frames, final_results, exc, ret, session,
                   cal_year, cal_month>>

(***************************************************************************)
(* The uploaded workbooks                                                  *)
(***************************************************************************)
MaxRows == 3

Jan22 == toordinal(2024, 1, 22)
Feb26 == toordinal(2024, 2, 26)

\* a row of the sheet as xl_file.parse gives it: every cell present or blank
MakeRow(part, date, onhand, moq, n, conf, unconf, por, dcr) ==
    ("Part Number" :> Some(part)) @@ ("Date" :> Some(date))
    @@ ("Onhand" :> onhand) @@ ("MOQ" :> moq) @@ ("n" :> n)
    @@ (conf_col :> conf) @@ (unconf_col :> unconf)
    @@ ("POR demand" :> por) @@ ("DCR" :> dcr)

DropColumn(sheet, c) ==
    [r \in DOMAIN sheet |-> [x \in (DOMAIN sheet[r]) \ {c} |-> sheet[r][x]]]

MasterRow(hppn, cost) == ("HPPN" :> Some(hppn)) @@ ("Unit Cost" :> Some(cost))

\* projection arithmetic: two parts interleaved, newest row first, every kind
\* of MOQ cell, horizons 0..2, demand present or not
EngineSheets ==
    UNION {
        { [r \in 1..nr |->
              MakeRow(ch[r][1], toordinal(2024, 1, 1) + 7 * (nr - r), Some(onhand),
                      moq, Some(n), Some(1), Some(4), Some(ch[r][2]), Some(1))] :
            ch \in [1..nr -> {1, 2} \X {0, 3}],
            onhand \in {0, 7},
            moq \in {None, Some(-1), Some(2), Some(3)},
            n \in {0, 1, 2} } :
        nr \in 1..MaxRows }

\* snapshot dates: rows on the last Monday of February and off that of January
SummarySheets ==
    UNION {
        { [r \in 1..nr |->
              MakeRow(ch[r][1], ch[r][2], Some(4), Some(2), Some(1), Some(0),
                      Some(0), Some(3), Some(0))] :
            ch \in [1..nr -> {1, 2} \X {Jan22, Feb26}] } :
        nr \in 1..MaxRows }

Masters ==
    { <<MasterRow(1, 5)>>,
      <<MasterRow(1, 5), MasterRow(2, 2)>>,
      <<MasterRow(2, 3), MasterRow(2, 2)>>,
      DropColumn(<<MasterRow(1, 5)>>, "Unit Cost") }

\* sheets that lack one of the columns the loop reads
SchemaSheets ==
    UNION {
        { DropColumn(
              [r \in 1..nr |->
                  MakeRow(ch[r], Jan22 + 7 * r, Some(5), Some(2), Some(n), Some(1),
                          unconf, Some(3), Some(1))], c) :
            ch \in [1..nr -> {1, 2}],
            n \in {0, 1},
            unconf \in {None, Some(4)},
            c \in {"none", unconf_col, conf_col, "n", "MOQ", "Onhand", "Date",
                   "POR demand"} } :
        nr \in 1..MaxRows }

Workbooks ==
    {("Data" :> sh) : sh \in EngineSheets \cup SchemaSheets}
    \cup {("Data" :> sh) @@ ("Master" :> m) : sh \in SummarySheets, m \in Masters}

(***************************************************************************)
(* Specifications                                                          *)
(***************************************************************************)
Init ==
    /\ wb \in Workbooks
    /\ selected_sheet = "Data"
    /\ pc = "idle"
    /\ Idle
    /\ session = [results |-> None, stats |-> None]
    /\ cal_year = MinYear /\ cal_month = 1 /\ cal_result = None

Next ==
    \/ \E s \in {"Data", "Master"} : SelectSheet(s)
    \/ Click
    \/ NextGroup
    \/ RowStep
    \/ EndGroup
    \/ Summarize
    \/ Except
    \/ Store

Spec == Init /\ [][Next]_vars

InitCal ==
    /\ wb = ("Data" :> <<MakeRow(1, Jan22, Some(0), Some(1), Some(0), Some(0),
                                 Some(0), Some(0), Some(0))>>)
    /\ selected_sheet = "Data"
    /\ pc = "idle"
    /\ Idle
    /\ session = [results |-> None, stats |-> None]
    /\ cal_year \in MinYear..MaxYear /\ cal_month \in 1..12 /\ cal_result = None

NextCal == CallLastMonday

SpecCal == InitCal /\ [][NextCal]_vars

(***************************************************************************)
(* Properties                                                              *)
(***************************************************************************)
\* the rows of the group being walked, as they were before the loop touched them
GroupInput == IF records = <<>> THEN <<>> ELSE SelectRows(df, records[1]["Part Number"])

\* the finished iterations of the group being walked
Done == 1..Len(frames)
Windowed == {k \in Done : frames[k].window}

\* demand of the forward window of row k, read back from the stored rows
TargetOf(k) == WindowSum(records, k - 1, frames[k].n_weeks)

\* the lot size the spec prescribes for row k
LotOf(k) == Max(Get(GroupInput[k], "MOQ", 1), 1)

\* C1: a failing invocation leaves the stored results and stats of the
\* earlier successful invocation unchanged.
C1_FailureKeepsResults ==
    [][(pc = "ret" /\ ret[1] = None /\ pc' = "idle") => session' = session]_vars

\* C2: in a part's date-ordered timeline row 0 starts from Onhand and every
\* later row starts from the Calculated_Balance stored on the row before it
\* of the same part.
C2_BalanceContinuity ==
    /\ Len(records) = Len(GroupInput)
    /\ \A k \in Done :
        /\ records[k]["Part Number"] = records[1]["Part Number"]
        /\ k > 1 => records[k - 1]["Date"] <= records[k]["Date"]
        /\ frames[k].start_val =
               IF k = 1 THEN Get(GroupInput[1], "Onhand", 0)
               ELSE records[k - 1]["Calculated_Balance"]

C2_Witness ==
    /\ Len(frames) >= 2
    /\ final_results # <<>>
    /\ frames[1].start_val # final_results[Len(final_results)]["Calculated_Balance"]
    /\ frames[2].start_val # frames[1].start_val

\* what row k's balance is without the unconfirmed order
BaseOf(k) == frames[k].start_val + records[k][conf_col] - SumCols(records[k], deductions)

\* C3 as stated: with gap >= 0 the order is the smallest multiple of the
\* lot size that brings the balance to at least target_sum.
C3_SmallestCovering ==
    \A k \in Windowed :
        TargetOf(k) - BaseOf(k) >= 0 =>
            LET u == records[k][unconf_col]
            IN  /\ u % LotOf(k) = 0
                /\ BaseOf(k) + u >= TargetOf(k)
                /\ ~(BaseOf(k) + (u - LotOf(k)) >= TargetOf(k))

\* C3 amended: with gap >= 0 the order is the smallest multiple of the lot
\* size that brings the balance strictly above target_sum.
C3_SmallestExceeding ==
    \A k \in Windowed :
        TargetOf(k) - BaseOf(k) >= 0 =>
            LET u == records[k][unconf_col]
            IN  /\ u % LotOf(k) = 0
                /\ BaseOf(k) + u > TargetOf(k)
                /\ ~(BaseOf(k) + (u - LotOf(k)) > TargetOf(k))

C3_Witness ==
    \E k \in Windowed :
        /\ LotOf(k) > 1
        /\ TargetOf(k) - BaseOf(k) > 0
        /\ (TargetOf(k) - BaseOf(k)) % LotOf(k) = 0
        /\ records[k][unconf_col] = TargetOf(k) - BaseOf(k) + LotOf(k)

\* C4: with a full forward window the order is an integer multiple of
\* max(raw MOQ, 1), which is at least 1 for a zero, negative or blank MOQ.
C4_MultipleOfFlooredMoq ==
    \A k \in Windowed :
        /\ frames[k].moq = LotOf(k)
        /\ frames[k].moq >= 1
        /\ records[k][unconf_col] % LotOf(k) = 0

C4_Witness ==
    /\ "MOQ" \in DOMAIN wb["Data"][1]
    /\ wb["Data"][1]["MOQ"] \in {None, Some(-1)}
    /\ \E k \in Windowed : records[k][unconf_col] # 0 /\ GroupInput[k]["MOQ"] <= 0

\* C5: with a full forward window, forward demand 0 gives WOS_Check 999 and
\* forward demand > 0 gives Calculated_Balance / demand * n_weeks.
C5_CoverageSentinel ==
    \A k \in Windowed :
        /\ TargetOf(k) = 0 => records[k]["WOS_Check"] = <<Sentinel, 1>>
        /\ TargetOf(k) > 0 =>
               records[k]["WOS_Check"] =
                   <<records[k]["Calculated_Balance"] * frames[k].n_weeks, TargetOf(k)>>

C5_Witness ==
    /\ \E k \in Windowed : frames[k].n_weeks > 0 /\ TargetOf(k) = 0
    /\ \E k \in Windowed : TargetOf(k) > 0

\* the month's last calendar day and its last Monday, from the calendar alone
MonthEnd(y, m) == toordinal(y, m, DaysInMonth(y, m))
IsMonday(d) == (d - toordinal(2024, 1, 1)) % 7 = 0
LastMondayIn(y, m) ==
    CHOOSE d \in toordinal(y, m, 1)..MonthEnd(y, m) : IsMonday(d) /\ d + 7 > MonthEnd(y, m)

\* C6: for every (year, month) the result is a Monday of that same month, at
\* most 6 days before the month's last day, and that day itself when it is a
\* Monday.
C6_LastMonday ==
    cal_result # None =>
        LET d == cal_result[1]
            last == MonthEnd(cal_year, cal_month)
        IN  /\ IsMonday(d)
            /\ to_period(d) = <<cal_year, cal_month>>
            /\ toordinal(cal_year, cal_month, 1) <= d
            /\ last - 6 <= d /\ d <= last
            /\ IsMonday(last) => d = last

C6_Witness ==
    /\ cal_result # None
    /\ cal_month = 12
    /\ IsMonday(MonthEnd(cal_year, cal_month))
    /\ cal_result[1] = MonthEnd(cal_year, cal_month)

\* what process_data returned, when it returned a summary
Returned == pc = "ret" /\ ret[1] # None
Out == ret[1][1]
HasSummary == Returned /\ "Summary Report" \in DOMAIN Out
MasterAvailable ==
    "Master" \in DOMAIN wb /\ \E c \in Columns(wb["Master"]) : ContainsCost(c)
PricedParts == {wb["Master"][r]["HPPN"][1] : r \in DOMAIN wb["Master"]}

\* C7: with a price table the summary holds exactly one record per part and
\* calendar month of the data; Balance is the Calculated_Balance of the part's
\* row dated on the month's last Monday, 0 without such a row; Unit Price is 0
\* for a part outside the price table; Amount = Balance * Unit Price.
C7_SnapshotLookup ==
    Returned =>
        /\ MasterAvailable <=> "Summary Report" \in DOMAIN Out
        /\ HasSummary =>
            LET S == Out["Summary Report"]
                D == Out[selected_sheet]
                months == {to_period(D[r]["Date"]) : r \in DOMAIN D}
                rowsOn(p, d) == {r \in DOMAIN D : D[r]["Part Number"] = p /\ D[r]["Date"] = d}
            IN  /\ Len(S) = Cardinality(PartsOf(D) \X months)
                /\ {<<S[x]["Part Number"], S[x]["Month"]>> : x \in DOMAIN S}
                       = PartsOf(D) \X months
                /\ \A x \in DOMAIN S :
                    LET p == S[x]["Part Number"]
                        d == LastMondayIn(S[x]["Month"][1], S[x]["Month"][2])
                    IN  /\ S[x]["Snapshot Date"] = d
                        /\ S[x]["Balance"] =
                               IF rowsOn(p, d) = {} THEN 0
                               ELSE D[SetMin(rowsOn(p, d))]["Calculated_Balance"]
                        /\ p \notin PricedParts => S[x]["Unit Price"] = 0
                        /\ p \in PricedParts =>
                               \E r \in DOMAIN wb["Master"] :
                                   /\ wb["Master"][r]["HPPN"] = Some(p)
                                   /\ wb["Master"][r]["Unit Cost"] = Some(S[x]["Unit Price"])
                        /\ S[x]["Amount"] = S[x]["Balance"] * S[x]["Unit Price"]

C7_Witness ==
    /\ HasSummary
    /\ LET S == Out["Summary Report"]
           D == Out[selected_sheet]
       IN  /\ Len(S) = 4
           /\ \E x \in DOMAIN S : S[x]["Amount"] # 0
           /\ \E x \in DOMAIN S :
                  /\ S[x]["Unit Price"] # 0 /\ S[x]["Balance"] = 0
                  /\ \A r \in DOMAIN D :
                         D[r]["Part Number"] = S[x]["Part Number"]
                             => D[r]["Date"] # S[x]["Snapshot Date"]
           /\ \E x \in DOMAIN S :
                  S[x]["Part Number"] \notin PricedParts /\ S[x]["Balance"] # 0

\* C8 as stated: a row without a full forward window keeps the input's
\* unconfirmed order (0 when the input has none), still gets its
\* Calculated_Balance, gets no WOS_Check, and does not make the run fail.
C8_NoWindowRowKeepsInput ==
    /\ exc # Some(KeyError(unconf_col))
    /\ \A k \in Done \ Windowed :
        /\ records[k][unconf_col] = Get(GroupInput[k], unconf_col, 0)
        /\ records[k]["Calculated_Balance"] =
               frames[k].start_val + records[k][unconf_col] + records[k][conf_col]
                   - SumCols(records[k], deductions)
        /\ "WOS_Check" \notin DOMAIN records[k]

\* C9: with a full forward window and gap < -moq the order is negative, is
\* stored as computed, and is carried into Calculated_Balance and the next
\* row's starting balance.
C9_NegativeOrdersKept ==
    \A k \in Windowed :
        TargetOf(k) - BaseOf(k) < -LotOf(k) =>
            LET u == records[k][unconf_col]
            IN  /\ u < 0
                /\ u = (((TargetOf(k) - BaseOf(k)) \div LotOf(k)) + 1) * LotOf(k)
                /\ records[k]["Calculated_Balance"] = BaseOf(k) + u
                /\ k + 1 \in Done =>
                       frames[k + 1].start_val = records[k]["Calculated_Balance"]

C9_Witness ==
    \E k \in Windowed :
        /\ TargetOf(k) - BaseOf(k) < -LotOf(k)
        /\ LotOf(k) > 1
        /\ records[k][unconf_col] < -LotOf(k)
        /\ k + 1 \in Done

\* C10: with a full forward window, 0 < Calculated_Balance - target_sum <=
\* effective MOQ whatever the sign of gap, and WOS_Check > n_weeks whenever
\* the forward demand is > 0.
C10_OverCoverage ==
    \A k \in Windowed :
        LET over == records[k]["Calculated_Balance"] - TargetOf(k)
            wos == records[k]["WOS_Check"]
        IN  /\ 0 < over /\ over <= LotOf(k)
            /\ TargetOf(k) - BaseOf(k) = 0 => records[k][unconf_col] = LotOf(k)
            /\ TargetOf(k) > 0 => wos[1] > frames[k].n_weeks * wos[2] /\ wos[2] > 0

C10_Witness ==
    \E k \in Windowed :
        /\ TargetOf(k) > 0 /\ TargetOf(k) - BaseOf(k) = 0 /\ LotOf(k) > 1
        /\ records[k]["Calculated_Balance"] - TargetOf(k) = LotOf(k)
        /\ records[k]["WOS_Check"][1] > frames[k].n_weeks * records[k]["WOS_Check"][2]

====
